---- MODULE Spec2Model ----
(***************************************************************************)
(* A model of the ack manager (package ack): the generic AckManager of     *)
(* src/recorder.go (lines 66-232) and its shards, the generic recorder of  *)
(* src/unnamed/part_001.                                                    *)
(*                                                                         *)
(* The manager owns `capacity` recorders (shards).  Each recorder is a map *)
(* from message id to *msg guarded by a sync.RWMutex.  In async mode Set   *)
(* and Ack try to send on two buffered channels and a goroutine started by *)
(* Start receives from them.  A Go panic or runtime fatal error is         *)
(* recorded in `fault` and ends the run (an unrecovered panic ends the     *)
(* process).                                                               *)
(***************************************************************************)
EXTENDS Integers, Sequences, FiniteSets, TLC

\* ---------------------------------------------------------------- bounds
MaxCapacity == 2
MaxTime == 1
MaxCycles == 2

\* The inputs the callers draw from.  With capacity 1 the three ids share a
\* shard; with capacity 2, 0 and 1 route to different shards.
Ids == {-1, 0, 1}
Flags == {1, 2}
Values == {"x", "y"}
\* The inputs of the callers of an async manager.
AsyncIds == {1}
AsyncFlags == {1}
AsyncValues == {"x"}
\* The buffer sizes an async manager is configured with (0: unbuffered).
BufferSizes == {0, 1}
Durations == -1..MaxTime
Preds == {"nil", "le"}

\* ---------------------------------------------------------------- state
VARIABLES
    cfg,        \* the Config the manager was built from
    records,    \* records[k]: the msgs map of shard k (id -> msg)
    lock,       \* lock[k]: the RWMutex of shard k
    setCh,      \* buffered items of a.setCh
    ackCh,      \* buffered items of a.ackCh
    stopCh,     \* a.stopCh: 0 is nil, n > 0 the n-th channel made by Start
    closed,     \* the stop channels that have been closed
    status,     \* a.status: 0 stopped, 1 running
    workers,    \* workers[n]: the goroutine spawned together with stop channel n
    startPend,  \* Start calls past their CompareAndSwap, before `a.stopCh = make`
    stopPend,   \* Stop calls past their CompareAndSwap, before `close(a.stopCh)`
    now,        \* time.Now().UnixNano()
    fault,      \* "none", or the panic / fatal error that ended the process
    atStop,     \* history: how many leading items of each queue were buffered
                \* when the stop signal was last closed
    threads,    \* threads[t]: a caller goroutine inside a sync-mode call, one
                \* lock operation at a time
    last        \* the last step taken: operation, arguments, results

vars == <<cfg, records, lock, setCh, ackCh, stopCh, closed, status, workers,
          startPend, stopPend, now, fault, atStop, threads, last>>

\* AckManager fields copied from the Config by NewAckManager.
capacity == cfg.Capacity
async == cfg.Async
canAck == cfg.CanAck

\* ---------------------------------------------------------------- values
NoFault == "none"
IndexPanic == "index out of range"
NilDerefPanic == "nil pointer dereference"
CloseNilPanic == "close of nil channel"
CloseClosedPanic == "close of closed channel"
RUnlockFatal == "sync: RUnlock of unlocked RWMutex"
ConcurrentMapFatal == "concurrent map writes"

ErrNil == "nil"
ErrMsgRecordFailed == "the buffer is full, asynchronously record msg failed"
ErrMsgAckFailed == "the buffer is full, asynchronously ack msg failed"
ErrCapacity == "capacity should be more than 0"

\* Go zero values of the fields an operation does not set.
ZeroMsg == [ID |-> 0, Timestamp |-> 0, Flag |-> 0, Value |-> ""]

msg(id, t, f, v) == [ID |-> id, Timestamp |-> t, Flag |-> f, Value |-> v]

EmptyMap == [i \in {} |-> ZeroMsg]

Shards == 0..(capacity - 1)

\* The record of a step: op names the step, the other fields its arguments
\* and results (err: the returned error; out: the slice Get returned; acq:
\* the shards whose lock the step acquired; old: the item a worker applied
\* was buffered when the stop signal was last closed).
Step(op, id, f, v, d, err, out, acq) ==
    [op |-> op, id |-> id, flag |-> f, val |-> v, dur |-> d, err |-> err,
     out |-> out, acq |-> acq, old |-> FALSE]

Plain(op) == Step(op, 0, 0, "", 0, ErrNil, <<>>, {})

\* A call of async mode: the operation and the error it returned.
Returned(op, err) == Step(op, 0, 0, "", 0, err, <<>>, {})

\* A worker applied an item.
Applied(op, old) == [Plain(op) EXCEPT !.old = old]

\* The caller goroutines of the concurrent runs; thread t works on its own
\* id.
Threads == {1, 2}
OwnId(t) == t - 1

\* A caller goroutine outside any call.  exp is the record its own calls,
\* applied one after the other, leave for its id: {} or {[Flag, Value]}.
IdleThread == [pc |-> "idle", id |-> 0, flag |-> 0, val |-> "", k |-> 0, exp |-> {}]

\* ---------------------------------------------------------------- sync.RWMutex
FreeLock == [w |-> FALSE, r |-> 0]

\* Lock: the writer holds the mutex.
RWLock(l) == [l EXCEPT !.w = TRUE]

\* RUnlock with no reader holding the mutex is the runtime's fatal error
\* "sync: RUnlock of unlocked RWMutex", whether or not a writer holds it
\* (r counts the readers holding it; no reader is blocked behind a writer
\* here, the calls being steps of their own).
RUnlockIsFatal(l) == l.r = 0

\* ---------------------------------------------------------------- recorder
\* The bug of a Set that keeps the timestamp of the record it replaces.
RecorderSetKeepsTime(msgs, id, f, v, t) ==
    [i \in (DOMAIN msgs) \cup {id} |->
        IF i = id
        THEN msg(id, IF id \in DOMAIN msgs THEN msgs[id].Timestamp ELSE t, f, v)
        ELSE msgs[i]]

\* recorder.Set: msgs[id] = &msg{id, time.Now(), f, v}.
RecorderSet(msgs, id, f, v, t) ==
    [i \in (DOMAIN msgs) \cup {id} |-> IF i = id THEN msg(id, t, f, v) ELSE msgs[i]]

\* The predicate configured as CanAck; "le" is the one of the Config comment:
\* setT <= ackT.
CanAckCall(setFlag, ackFlag) ==
    CASE canAck = "le" -> setFlag <= ackFlag

\* recorder.Remove evaluates m.Flag for the predicate's argument before it
\* looks at ok: with a predicate and no record, m is nil.
RemovePanics(msgs, id) == canAck # "nil" /\ id \notin DOMAIN msgs

\* The bug of calling the predicate with its arguments exchanged.
RecorderRemoveSwapped(msgs, id, f) ==
    LET ok == id \in DOMAIN msgs
        can == IF canAck # "nil" THEN CanAckCall(f, msgs[id].Flag) ELSE TRUE
    IN  IF ok /\ can
        THEN [i \in (DOMAIN msgs) \ {id} |-> msgs[i]]
        ELSE msgs

\* recorder.Remove when it does not panic.
RecorderRemove(msgs, id, f) ==
    LET ok == id \in DOMAIN msgs
        can == IF canAck # "nil" THEN CanAckCall(msgs[id].Flag, f) ELSE TRUE
    IN  IF ok /\ can
        THEN [i \in (DOMAIN msgs) \ {id} |-> msgs[i]]
        ELSE msgs

\* All orders in which a range over a Go map can visit the set S.
Orders(S) ==
    {s \in [1..Cardinality(S) -> S] : \A i, j \in 1..Cardinality(S) : s[i] = s[j] => i = j}

\* The bug of comparing the age with > instead of >=.
RecorderGetStrict(msgs, duration, t) ==
    IF duration <= 0
    THEN {<<>>}
    ELSE Orders({msgs[i] : i \in {j \in DOMAIN msgs : t - msgs[j].Timestamp > duration}})

\* The bug of a guard that lets duration 0 through to the scan.
RecorderGetZeroScans(msgs, duration, t) ==
    IF duration < 0
    THEN {<<>>}
    ELSE Orders({msgs[i] : i \in {j \in DOMAIN msgs : t - msgs[j].Timestamp >= duration}})

\* recorder.Get: the slices it can return at time t.
RecorderGet(msgs, duration, t) ==
    IF duration <= 0
    THEN {<<>>}
    ELSE Orders({msgs[i] : i \in {j \in DOMAIN msgs : t - msgs[j].Timestamp >= duration}})

\* The shard locks recorder.Get takes (RLock) for this duration.
RecorderGetLocks(duration) == IF duration <= 0 THEN {} ELSE Shards

\* recorder.ReAllocate's copy loop.
RecorderReAllocate(msgs) == [k \in DOMAIN msgs |-> msgs[k]]

\* ---------------------------------------------------------------- manager
\* Go's %: the result has the sign of the dividend.
GoRem(a, b) == IF a >= 0 THEN a % b ELSE 0 - ((0 - a) % b)

\* index := id % int64(a.capacity)
ShardIndex(id) == GoRem(id, capacity)

\* a.records[index] panics unless 0 <= index < len(a.records).
IndexPanics(index) == index < 0 \/ index >= capacity

\* AckManager.set: the shard's Set, under its lock.
set(id, f, v) ==
    LET index == ShardIndex(id) IN
    IF IndexPanics(index)
    THEN /\ fault' = IndexPanic
         /\ UNCHANGED <<records, lock>>
    ELSE /\ records' = [records EXCEPT ![index] = RecorderSet(@, id, f, v, now)]
         /\ UNCHANGED <<fault, lock>>

\* AckManager.ack: the shard's Remove, under its lock.  The panic inside
\* Remove leaves the shard locked (Unlock is not deferred).
ack(id, f) ==
    LET index == ShardIndex(id) IN
    IF IndexPanics(index)
    THEN /\ fault' = IndexPanic
         /\ UNCHANGED <<records, lock>>
    ELSE IF RemovePanics(records[index], id)
    THEN /\ fault' = NilDerefPanic
         /\ lock' = [lock EXCEPT ![index] = RWLock(@)]
         /\ UNCHANGED records
    ELSE /\ records' = [records EXCEPT ![index] = RecorderRemove(@, id, f)]
         /\ UNCHANGED <<fault, lock>>

\* The shards a.set / a.ack lock for this id.
Locked(id) == IF IndexPanics(ShardIndex(id)) THEN {} ELSE {ShardIndex(id)}

\* AckManager.Get: the concatenation of every shard's Get, shard 0 first.
RECURSIVE GetFrom(_, _)
GetFrom(k, duration) ==
    IF k >= capacity
    THEN {<<>>}
    ELSE {a \o b : a \in RecorderGet(records[k], duration, now),
                   b \in GetFrom(k + 1, duration)}

\* NewAckManager returned a manager (not nil with an error).
Built == DOMAIN records # {}

\* The caller holds a manager and no panic or fatal error has ended the
\* process.
Alive == Built /\ fault = NoFault

lifecycle == <<stopCh, closed, status, workers, startPend, stopPend, atStop>>
queues == <<setCh, ackCh>>

\* ---------------------------------------------------------------- sync mode
\* Set in sync mode: a.set(id, f, v); return nil.
SetSync(id, f, v) ==
    /\ Alive /\ ~async
    /\ set(id, f, v)
    /\ last' = Step("Set", id, f, v, 0, ErrNil, <<>>, Locked(id))
    /\ UNCHANGED <<cfg, threads, queues, lifecycle, now>>

\* Ack in sync mode: a.ack(id, f); return nil.
AckSync(id, f) ==
    /\ Alive /\ ~async
    /\ ack(id, f)
    /\ last' = Step("Ack", id, f, "", 0, ErrNil, <<>>, Locked(id))
    /\ UNCHANGED <<cfg, threads, queues, lifecycle, now>>

\* AckManager.Get(duration).
Get(duration) ==
    /\ Alive
    /\ \E res \in GetFrom(0, duration) :
          last' = Step("Get", 0, 0, "", duration, ErrNil, res, RecorderGetLocks(duration))
    /\ UNCHANGED <<cfg, threads, records, lock, queues, lifecycle, now, fault>>

\* AckManager.ReAllocate: recorder.ReAllocate of shard 0, 1, ...  Each takes
\* the write lock, installs the copy and calls RUnlock.
ReAllocate ==
    /\ Alive
    /\ LET held == RWLock(lock[0]) IN
       IF RUnlockIsFatal(held)
       THEN /\ records' = [records EXCEPT ![0] = RecorderReAllocate(@)]
            /\ lock' = [lock EXCEPT ![0] = held]
            /\ fault' = RUnlockFatal
       ELSE /\ records' = [k \in Shards |-> RecorderReAllocate(records[k])]
            /\ UNCHANGED <<lock, fault>>
    /\ last' = Plain("ReAllocate")
    /\ UNCHANGED <<cfg, threads, queues, lifecycle, now>>

\* Start and Stop on a manager that is not async: return at once.
StartSync ==
    /\ Alive /\ ~async
    /\ last' = Plain("Start")
    /\ UNCHANGED <<cfg, threads, records, lock, queues, lifecycle, now, fault>>

StopSync ==
    /\ Alive /\ ~async
    /\ last' = Plain("Stop")
    /\ UNCHANGED <<cfg, threads, records, lock, queues, lifecycle, now, fault>>

\* The clock advances.
Tick ==
    /\ Alive
    /\ now < MaxTime
    /\ now' = now + 1
    /\ last' = Plain("Tick")
    /\ UNCHANGED <<cfg, threads, records, lock, queues, lifecycle, fault>>

\* ---------------------------------------------------------------- async mode
WorkerIds == 1..MaxCycles

\* A goroutine that holds no item: not spawned ("none"), before its select
\* ("ready"), blocked in it ("parked", with the stop channel it waits on) or
\* returned ("done").
Idle(pc) == [pc |-> pc, ch |-> 0, m |-> ZeroMsg, old |-> FALSE]

\* The goroutines blocked in the select of Start's func, waiting to receive.
Parked == {n \in WorkerIds : workers[n].pc = "parked"}

\* A send reaches a goroutine blocked in select: it resumes with that case.
Receive(n, pc, m) == [workers EXCEPT ![n] = [pc |-> pc, ch |-> 0, m |-> m, old |-> FALSE]]

\* The bug of a send that also succeeds on a full buffer.
HasRoomOffByOne(ch, size) == Len(ch) <= size

\* A send on a buffered channel with no receiver blocked on it succeeds, in a
\* select with default, when the buffer holds fewer items than its size.
HasRoom(ch, size) == Len(ch) < size

\* Set in async mode: select { case a.setCh <- m: return nil; default: return
\* ErrMsgRecordFailed }.  The send succeeds when a receiver is blocked on the
\* channel or the buffer has room.
SetAsync(id, f, v) ==
    /\ Alive /\ async
    /\ LET m == msg(id, now, f, v) IN
       IF Parked # {}
       THEN /\ \E n \in Parked : workers' = Receive(n, "set", m)
            /\ last' = Returned("Set", ErrNil)
            /\ UNCHANGED setCh
       ELSE IF HasRoom(setCh, cfg.SetBufferSize)
       THEN /\ setCh' = Append(setCh, m)
            /\ last' = Returned("Set", ErrNil)
            /\ UNCHANGED workers
       ELSE /\ last' = Returned("Set", ErrMsgRecordFailed)
            /\ UNCHANGED <<setCh, workers>>
    /\ UNCHANGED <<cfg, threads, records, lock, ackCh, stopCh, closed, status, startPend,
                   stopPend, now, fault, atStop>>

\* Ack in async mode: the same on a.ackCh, with a msg of ID and Flag only.
AckAsync(id, f) ==
    /\ Alive /\ async
    /\ LET m == msg(id, 0, f, "") IN
       IF Parked # {}
       THEN /\ \E n \in Parked : workers' = Receive(n, "ack", m)
            /\ last' = Returned("Ack", ErrNil)
            /\ UNCHANGED ackCh
       ELSE IF HasRoom(ackCh, cfg.AckBufferSize)
       THEN /\ ackCh' = Append(ackCh, m)
            /\ last' = Returned("Ack", ErrNil)
            /\ UNCHANGED workers
       ELSE /\ last' = Returned("Ack", ErrMsgAckFailed)
            /\ UNCHANGED <<ackCh, workers>>
    /\ UNCHANGED <<cfg, threads, records, lock, setCh, stopCh, closed, status, startPend,
                   stopPend, now, fault, atStop>>

\* Start, first step: atomic.CompareAndSwapInt32(&a.status, 0, 1); return
\* when it fails.
Start ==
    /\ Alive /\ async
    /\ IF status = 0
       THEN /\ stopCh + startPend < MaxCycles
            /\ status' = 1
            /\ startPend' = startPend + 1
       ELSE UNCHANGED <<status, startPend>>
    /\ last' = Plain("Start")
    /\ UNCHANGED <<cfg, threads, records, lock, queues, stopCh, closed, workers, stopPend,
                   now, fault, atStop>>

\* Start, second step: a.stopCh = make(chan struct{}); go func() {...}().
StartGo ==
    /\ Alive /\ startPend > 0
    /\ startPend' = startPend - 1
    /\ stopCh' = stopCh + 1
    /\ workers' = [workers EXCEPT ![stopCh + 1] = Idle("ready")]
    /\ last' = Plain("StartGo")
    /\ UNCHANGED <<cfg, threads, records, lock, queues, closed, status, stopPend, now, fault, atStop>>

\* The bug of a Stop that goes on to close whatever the status is.
StopUnguarded ==
    /\ Alive /\ async
    /\ status' = 0
    /\ stopPend' = stopPend + 1
    /\ last' = Plain("Stop")
    /\ UNCHANGED <<cfg, threads, records, lock, queues, stopCh, closed, workers, startPend,
                   now, fault, atStop>>

\* Stop, first step: atomic.CompareAndSwapInt32(&a.status, 1, 0); return when
\* it fails.
Stop ==
    /\ Alive /\ async
    /\ IF status = 1
       THEN /\ status' = 0
            /\ stopPend' = stopPend + 1
       ELSE UNCHANGED <<status, stopPend>>
    /\ last' = Plain("Stop")
    /\ UNCHANGED <<cfg, threads, records, lock, queues, stopCh, closed, workers, startPend,
                   now, fault, atStop>>

\* The bug (or the other design) of a Stop that throws the buffered items
\* away.
StopCloseDrains ==
    /\ Alive /\ stopPend > 0
    /\ stopPend' = stopPend - 1
    /\ IF stopCh = 0
       THEN /\ fault' = CloseNilPanic
            /\ UNCHANGED <<closed, workers, atStop>>
       ELSE IF stopCh \in closed
       THEN /\ fault' = CloseClosedPanic
            /\ UNCHANGED <<closed, workers, atStop>>
       ELSE /\ closed' = closed \cup {stopCh}
            /\ workers' = [n \in WorkerIds |->
                            IF workers[n].pc = "parked" /\ workers[n].ch = stopCh
                            THEN Idle("done")
                            ELSE workers[n]]
            /\ atStop' = [set |-> 0, ack |-> 0]
            /\ UNCHANGED fault
    /\ last' = Plain("StopClose")
    /\ setCh' = <<>> /\ ackCh' = <<>>
    /\ UNCHANGED <<cfg, threads, records, lock, stopCh, status, startPend, now>>

\* Stop, second step: close(a.stopCh).  Closing a nil or a closed channel
\* panics; closing wakes every goroutine blocked on the channel, and each
\* returns.
StopClose ==
    /\ Alive /\ stopPend > 0
    /\ stopPend' = stopPend - 1
    /\ IF stopCh = 0
       THEN /\ fault' = CloseNilPanic
            /\ UNCHANGED <<closed, workers, atStop>>
       ELSE IF stopCh \in closed
       THEN /\ fault' = CloseClosedPanic
            /\ UNCHANGED <<closed, workers, atStop>>
       ELSE /\ closed' = closed \cup {stopCh}
            /\ workers' = [n \in WorkerIds |->
                            IF workers[n].pc = "parked" /\ workers[n].ch = stopCh
                            THEN Idle("done")
                            ELSE workers[n]]
            /\ atStop' = [set |-> Len(setCh), ack |-> Len(ackCh)]
            /\ UNCHANGED fault
    /\ last' = Plain("StopClose")
    /\ UNCHANGED <<cfg, threads, records, lock, queues, stopCh, status, startPend, now>>

\* The goroutine of Start reaches its select.  It reads a.stopCh, which a
\* later Start may be writing (a data race): it sees the channel of its own
\* Start or a later one.  Among the ready cases Go picks any; with none ready
\* the goroutine blocks.
WorkerSelect(n) ==
    /\ Alive /\ workers[n].pc = "ready"
    /\ \E ch \in n..stopCh :
          \/ /\ Len(setCh) > 0
             /\ workers' = [workers EXCEPT ![n] =
                    [pc |-> "set", ch |-> 0, m |-> Head(setCh), old |-> atStop.set > 0]]
             /\ setCh' = Tail(setCh)
             /\ atStop' = [atStop EXCEPT !.set = IF @ > 0 THEN @ - 1 ELSE 0]
             /\ UNCHANGED ackCh
          \/ /\ Len(ackCh) > 0
             /\ workers' = [workers EXCEPT ![n] =
                    [pc |-> "ack", ch |-> 0, m |-> Head(ackCh), old |-> atStop.ack > 0]]
             /\ ackCh' = Tail(ackCh)
             /\ atStop' = [atStop EXCEPT !.ack = IF @ > 0 THEN @ - 1 ELSE 0]
             /\ UNCHANGED setCh
          \/ /\ ch \in closed
             /\ workers' = [workers EXCEPT ![n] = Idle("done")]
             /\ UNCHANGED <<queues, atStop>>
          \/ /\ Len(setCh) = 0 /\ Len(ackCh) = 0 /\ ch \notin closed
             /\ workers' = [workers EXCEPT ![n] = [Idle("parked") EXCEPT !.ch = ch]]
             /\ UNCHANGED <<queues, atStop>>
    /\ last' = Plain("WorkerSelect")
    /\ UNCHANGED <<cfg, threads, records, lock, stopCh, closed, status, startPend, stopPend,
                   now, fault>>

\* case m := <-a.setCh: a.set(m.ID, m.Flag, m.Value); then the func returns.
WorkerSet(n) ==
    /\ Alive /\ workers[n].pc = "set"
    /\ LET m == workers[n].m IN
       /\ set(m.ID, m.Flag, m.Value)
       /\ last' = Applied("WorkerSet", workers[n].old)
    /\ workers' = [workers EXCEPT ![n] = Idle("done")]
    /\ UNCHANGED <<cfg, threads, queues, stopCh, closed, status, startPend, stopPend, now,
                   atStop>>

\* case m := <-a.ackCh: a.ack(m.ID, m.Flag); then the func returns.
WorkerAck(n) ==
    /\ Alive /\ workers[n].pc = "ack"
    /\ LET m == workers[n].m IN
       /\ ack(m.ID, m.Flag)
       /\ last' = Applied("WorkerAck", workers[n].old)
    /\ workers' = [workers EXCEPT ![n] = Idle("done")]
    /\ UNCHANGED <<cfg, threads, queues, stopCh, closed, status, startPend, stopPend, now,
                   atStop>>

\* A step of some goroutine of Start.
Worker == \E n \in WorkerIds : WorkerSelect(n) \/ WorkerSet(n) \/ WorkerAck(n)

\* ---------------------------------------------------------------- concurrent callers
\* Sync-mode calls made by several goroutines at once.  A call is split at
\* its lock operations: the call up to Lock / RLock, the acquisition (which
\* waits while the mutex is not available), and the body up to and including
\* the release.
WriterPcs == {"set.locked", "ack.locked", "re.locked"}
CriticalPcs == WriterPcs \cup {"get.rlocked"}

\* Thread t is between acquiring and releasing the lock of shard k.
Holds(t, k) == threads[t].k = k /\ threads[t].pc \in CriticalPcs

\* Another goroutine is inside a critical section of the shard t writes to.
Racing(t) == \E u \in Threads \ {t} : Holds(u, threads[t].k)

\* What a write to the map can do: the write; or, when it races with
\* another access (unsynchronised map access is a data race), also nothing
\* or the runtime's fatal error "concurrent map writes".
WriteOutcomes(t) == IF Racing(t) THEN {"write", "lost", "fatal"} ELSE {"write"}

\* The goroutines that wait in RLock for shard k's writer to leave.
PendingReaders(k) == {u \in Threads : threads[u].pc = "get.rlock" /\ threads[u].k = k}

\* What the thread's own calls, one after the other, leave for its id after
\* Ack(id, f).
ExpAfterAck(e, f) ==
    IF e = {}
    THEN {}
    ELSE LET r == CHOOSE x \in e : TRUE
         IN  IF canAck = "nil" \/ CanAckCall(r.Flag, f) THEN {} ELSE e

\* Thread t calls Set(OwnId(t), f, v): index := id % capacity, then
\* recorder.Set up to r.Lock().
ThreadCallSet(t, f, v) ==
    /\ Alive /\ ~async /\ threads[t].pc = "idle"
    /\ LET id == OwnId(t)
           index == ShardIndex(id)
       IN  IF IndexPanics(index)
           THEN /\ fault' = IndexPanic
                /\ UNCHANGED threads
           ELSE /\ threads' = [threads EXCEPT ![t] =
                       [pc |-> "set.lock", id |-> id, flag |-> f, val |-> v, k |-> index,
                        exp |-> {[Flag |-> f, Value |-> v]}]]
                /\ UNCHANGED fault
    /\ last' = Plain("ThreadCallSet")
    /\ UNCHANGED <<cfg, records, lock, queues, lifecycle, now>>

\* Thread t calls Ack(OwnId(t), f): index := id % capacity, then
\* recorder.Remove up to r.Lock().
ThreadCallAck(t, f) ==
    /\ Alive /\ ~async /\ threads[t].pc = "idle"
    /\ LET id == OwnId(t)
           index == ShardIndex(id)
       IN  IF IndexPanics(index)
           THEN /\ fault' = IndexPanic
                /\ UNCHANGED threads
           ELSE /\ threads' = [threads EXCEPT ![t] =
                       [pc |-> "ack.lock", id |-> id, flag |-> f, val |-> "", k |-> index,
                        exp |-> ExpAfterAck(threads[t].exp, f)]]
                /\ UNCHANGED fault
    /\ last' = Plain("ThreadCallAck")
    /\ UNCHANGED <<cfg, records, lock, queues, lifecycle, now>>

\* The bug of a Lock that does not wait for the mutex to be free.
ThreadLockNoWait(t) ==
    /\ Alive /\ threads[t].pc \in {"set.lock", "ack.lock", "re.lock"}
    /\ lock' = [lock EXCEPT ![threads[t].k] = RWLock(@)]
    /\ threads' = [threads EXCEPT ![t].pc =
            CASE @ = "set.lock" -> "set.locked"
              [] @ = "ack.lock" -> "ack.locked"
              [] @ = "re.lock" -> "re.locked"]
    /\ last' = Plain("ThreadLock")
    /\ UNCHANGED <<cfg, records, queues, lifecycle, now, fault>>

\* r.Lock() returns: no writer and no reader holds the shard's mutex.
ThreadLock(t) ==
    /\ Alive /\ threads[t].pc \in {"set.lock", "ack.lock", "re.lock"}
    /\ lock[threads[t].k] = FreeLock
    /\ lock' = [lock EXCEPT ![threads[t].k] = RWLock(@)]
    /\ threads' = [threads EXCEPT ![t].pc =
            CASE @ = "set.lock" -> "set.locked"
              [] @ = "ack.lock" -> "ack.locked"
              [] @ = "re.lock" -> "re.locked"]
    /\ last' = Plain("ThreadLock")
    /\ UNCHANGED <<cfg, records, queues, lifecycle, now, fault>>

\* recorder.Set under the lock: r.msgs[id] = m; r.Unlock().
ThreadSetBody(t) ==
    /\ Alive /\ threads[t].pc = "set.locked"
    /\ LET th == threads[t] IN
       \E out \in WriteOutcomes(t) :
          IF out = "fatal"
          THEN /\ fault' = ConcurrentMapFatal
               /\ UNCHANGED <<records, lock, threads>>
          ELSE /\ records' = IF out = "write"
                             THEN [records EXCEPT ![th.k] =
                                      RecorderSet(@, th.id, th.flag, th.val, now)]
                             ELSE records
               /\ lock' = [lock EXCEPT ![th.k].w = FALSE]
               /\ threads' = [threads EXCEPT ![t].pc = "idle"]
               /\ UNCHANGED fault
    /\ last' = Plain("ThreadSetBody")
    /\ UNCHANGED <<cfg, queues, lifecycle, now>>

\* recorder.Remove under the lock: the predicate (a nil dereference when the
\* record is absent), delete(r.msgs, id), r.Unlock().
ThreadAckBody(t) ==
    /\ Alive /\ threads[t].pc = "ack.locked"
    /\ LET th == threads[t] IN
       \E out \in WriteOutcomes(t) :
          IF RemovePanics(records[th.k], th.id)
          THEN /\ fault' = NilDerefPanic
               /\ UNCHANGED <<records, lock, threads>>
          ELSE IF out = "fatal"
          THEN /\ fault' = ConcurrentMapFatal
               /\ UNCHANGED <<records, lock, threads>>
          ELSE /\ records' = IF out = "write"
                             THEN [records EXCEPT ![th.k] = RecorderRemove(@, th.id, th.flag)]
                             ELSE records
               /\ lock' = [lock EXCEPT ![th.k].w = FALSE]
               /\ threads' = [threads EXCEPT ![t].pc = "idle"]
               /\ UNCHANGED fault
    /\ last' = Plain("ThreadAckBody")
    /\ UNCHANGED <<cfg, queues, lifecycle, now>>

\* Thread t calls Get(d) with d > 0 and reaches r.RLock() of shard 0.  (The
\* slice Get returns is not kept here.)
ThreadCallGet(t) ==
    /\ Alive /\ ~async /\ threads[t].pc = "idle"
    /\ threads' = [threads EXCEPT ![t].pc = "get.rlock", ![t].k = 0]
    /\ last' = Plain("ThreadCallGet")
    /\ UNCHANGED <<cfg, records, lock, queues, lifecycle, now, fault>>

\* r.RLock() returns: no writer holds the shard's mutex.
ThreadRLock(t) ==
    /\ Alive /\ threads[t].pc = "get.rlock"
    /\ ~lock[threads[t].k].w
    /\ lock' = [lock EXCEPT ![threads[t].k].r = @ + 1]
    /\ threads' = [threads EXCEPT ![t].pc = "get.rlocked"]
    /\ last' = Plain("ThreadRLock")
    /\ UNCHANGED <<cfg, records, queues, lifecycle, now, fault>>

\* recorder.Get under the read lock: the scan, r.RUnlock(); then the next
\* shard, or Get returns.
ThreadGetBody(t) ==
    /\ Alive /\ threads[t].pc = "get.rlocked"
    /\ lock' = [lock EXCEPT ![threads[t].k].r = @ - 1]
    /\ threads' = IF threads[t].k + 1 < capacity
                  THEN [threads EXCEPT ![t].pc = "get.rlock", ![t].k = @ + 1]
                  ELSE [threads EXCEPT ![t].pc = "idle", ![t].k = 0]
    /\ last' = Plain("ThreadGetBody")
    /\ UNCHANGED <<cfg, records, queues, lifecycle, now, fault>>

\* Thread t calls ReAllocate and enters recorder.ReAllocate of shard 0.
ThreadCallReAllocate(t) ==
    /\ Alive /\ ~async /\ threads[t].pc = "idle"
    /\ threads' = [threads EXCEPT ![t].pc = "re.size", ![t].k = 0]
    /\ last' = Plain("ThreadCallReAllocate")
    /\ UNCHANGED <<cfg, records, lock, queues, lifecycle, now, fault>>

\* recorder.ReAllocate, first statement: make(map, len(r.msgs)) reads the
\* map before r.Lock().
ThreadReSize(t) ==
    /\ Alive /\ threads[t].pc = "re.size"
    /\ threads' = [threads EXCEPT ![t].pc = "re.lock"]
    /\ last' = Plain("ThreadReSize")
    /\ UNCHANGED <<cfg, records, lock, queues, lifecycle, now, fault>>

\* recorder.ReAllocate under the write lock: the copy, r.msgs = newMsgs,
\* r.RUnlock().  With no reader waiting in RLock the RUnlock is the fatal
\* error; with one waiting it may also return, and the write lock is never
\* released.
ThreadReBody(t) ==
    /\ Alive /\ threads[t].pc = "re.locked"
    /\ LET k == threads[t].k IN
       /\ records' = [records EXCEPT ![k] = RecorderReAllocate(@)]
       /\ \E out \in (IF PendingReaders(k) # {} THEN {"fatal", "returns"} ELSE {"fatal"}) :
             IF RUnlockIsFatal(lock[k]) /\ out = "fatal"
             THEN /\ fault' = RUnlockFatal
                  /\ UNCHANGED threads
             ELSE /\ threads' = IF k + 1 < capacity
                                THEN [threads EXCEPT ![t].pc = "re.size", ![t].k = @ + 1]
                                ELSE [threads EXCEPT ![t].pc = "idle", ![t].k = 0]
                  /\ UNCHANGED fault
    /\ last' = Plain("ThreadReBody")
    /\ UNCHANGED <<cfg, lock, queues, lifecycle, now>>

\* Concurrent Set and Ack on a sync manager.
NextConc ==
    \/ \E t \in Threads, f \in Flags, v \in Values : ThreadCallSet(t, f, v)
    \/ \E t \in Threads, f \in Flags : ThreadCallAck(t, f)
    \/ \E t \in Threads : ThreadLock(t)
    \/ \E t \in Threads : ThreadSetBody(t)
    \/ \E t \in Threads : ThreadAckBody(t)

\* Concurrent Set, Ack, Get and ReAllocate on a sync manager.
NextConcAll ==
    \/ NextConc
    \/ \E t \in Threads : ThreadCallGet(t)
    \/ \E t \in Threads : ThreadRLock(t)
    \/ \E t \in Threads : ThreadGetBody(t)
    \/ \E t \in Threads : ThreadCallReAllocate(t)
    \/ \E t \in Threads : ThreadReSize(t)
    \/ \E t \in Threads : ThreadReBody(t)

\* ---------------------------------------------------------------- construction
\* The fields after NewAckManager(c) has allocated the shards `shards` and
\* returns err: empty shards with free locks, empty queues, a nil stop
\* channel, status 0 and no goroutine.
Allocated(c, shards, err) ==
    /\ cfg = c
    /\ records = [k \in shards |-> EmptyMap]
    /\ lock = [k \in shards |-> FreeLock]
    /\ setCh = <<>>
    /\ ackCh = <<>>
    /\ stopCh = 0
    /\ closed = {}
    /\ status = 0
    /\ workers = [n \in 1..MaxCycles |-> Idle("none")]
    /\ atStop = [set |-> 0, ack |-> 0]
    /\ threads = [t \in Threads |-> IdleThread]
    /\ startPend = 0
    /\ stopPend = 0
    /\ now = 0
    /\ fault = NoFault
    /\ last = Returned("NewAckManager", err)

\* NewAckManager(cfg) for a cfg with Capacity > 0.
Constructed(c) ==
    /\ c.Capacity > 0
    /\ Allocated(c, 0..(c.Capacity - 1), ErrNil)

\* The bug of a check that lets Capacity 0 through.
NewAckManagerAllowsZero(c) ==
    IF c.Capacity < 0
    THEN Allocated(c, {}, ErrCapacity)
    ELSE Allocated(c, 0..(c.Capacity - 1), ErrNil)

\* NewAckManager(cfg): nil and an error when cfg.Capacity <= 0, nothing
\* being allocated; the manager otherwise.
NewAckManager(c) ==
    IF c.Capacity <= 0
    THEN Allocated(c, {}, ErrCapacity)
    ELSE Allocated(c, 0..(c.Capacity - 1), ErrNil)

Configs(modes) ==
    [Capacity : 1..MaxCapacity, Async : modes, SetBufferSize : BufferSizes,
     AckBufferSize : BufferSizes, CanAck : Preds]

InitSync == \E c \in Configs({FALSE}) :
    /\ c.SetBufferSize = 0 /\ c.AckBufferSize = 0
    /\ Constructed(c)

NextSync ==
    \/ \E id \in Ids, f \in Flags, v \in Values : SetSync(id, f, v)
    \/ \E id \in Ids, f \in Flags : AckSync(id, f)
    \/ \E d \in Durations : Get(d)
    \/ ReAllocate
    \/ StartSync
    \/ StopSync
    \/ Tick

SpecSync == InitSync /\ [][NextSync]_vars

SpecConc == InitSync /\ [][NextConc]_vars

SpecConcAll == InitSync /\ [][NextConcAll]_vars

\* Every Config a caller can pass, the ones NewAckManager refuses included.
AllConfigs ==
    [Capacity : -1..MaxCapacity, Async : BOOLEAN, SetBufferSize : BufferSizes,
     AckBufferSize : BufferSizes, CanAck : Preds]

\* Construction from any Config (the buffer sizes only matter when Async).
InitNew == \E c \in AllConfigs :
    /\ c.Async \/ (c.SetBufferSize = 0 /\ c.AckBufferSize = 0)
    /\ NewAckManager(c)

\* Construction followed by the calls of sync mode.
SpecNew == InitNew /\ [][NextSync]_vars

\* The async managers explored have MaxCapacity shards.
InitAsync == \E c \in Configs({TRUE}) :
    /\ c.Capacity = MaxCapacity
    /\ Constructed(c)

NextAsync ==
    \/ \E id \in AsyncIds, f \in AsyncFlags, v \in AsyncValues : SetAsync(id, f, v)
    \/ \E id \in AsyncIds, f \in AsyncFlags : AckAsync(id, f)
    \/ ReAllocate
    \/ Start
    \/ StartGo
    \/ Stop
    \/ StopClose
    \/ \E n \in WorkerIds : WorkerSelect(n)
    \/ \E n \in WorkerIds : WorkerSet(n)
    \/ \E n \in WorkerIds : WorkerAck(n)

SpecAsync == InitAsync /\ [][NextAsync]_vars

\* Async mode with the clock advancing between the steps.
NextAsyncTimed ==
    \/ \E id \in AsyncIds, f \in AsyncFlags, v \in AsyncValues : SetAsync(id, f, v)
    \/ \E id \in AsyncIds, f \in AsyncFlags : AckAsync(id, f)
    \/ Start
    \/ StartGo
    \/ Stop
    \/ StopClose
    \/ \E n \in WorkerIds : WorkerSelect(n)
    \/ \E n \in WorkerIds : WorkerSet(n)
    \/ \E n \in WorkerIds : WorkerAck(n)
    \/ Tick

SpecAsyncTimed == InitAsync /\ [][NextAsyncTimed]_vars

\* No Start or Stop call is between its CompareAndSwap and its return.
NoCallInProgress == startPend = 0 /\ stopPend = 0

\* Start and Stop called one after the other (by one goroutine, or under the
\* caller's own mutual exclusion), on async and on sync managers, while
\* other callers Set and Ack and the goroutines of Start run.
InitSeq == InitSync \/ InitAsync

\* A Start call made when no Start or Stop call is under way.
SeqStart == NoCallInProgress /\ Start

\* A Stop call made when no Start or Stop call is under way.
SeqStop == NoCallInProgress /\ Stop

NextSeq ==
    \/ SeqStart
    \/ SeqStop
    \/ StartGo
    \/ StopClose
    \/ \E n \in WorkerIds : WorkerSelect(n)
    \/ \E n \in WorkerIds : WorkerSet(n)
    \/ \E n \in WorkerIds : WorkerAck(n)
    \/ \E id \in AsyncIds, f \in AsyncFlags, v \in AsyncValues : SetAsync(id, f, v)
    \/ \E id \in AsyncIds, f \in AsyncFlags : AckAsync(id, f)
    \/ StartSync
    \/ StopSync
    \/ \E id \in Ids, f \in Flags, v \in Values : SetSync(id, f, v)
    \/ \E id \in Ids, f \in Flags : AckSync(id, f)

SpecSeq == InitSeq /\ [][NextSeq]_vars

\* The Go scheduler runs every runnable goroutine: a spawned worker reaches
\* its select and handles the item it received, and a caller past the
\* CompareAndSwap of Start or Stop finishes the call.
SpecAsyncFair ==
    /\ SpecAsync
    /\ WF_vars(Worker)
    /\ WF_vars(StartGo)
    /\ WF_vars(StopClose)

\* ---------------------------------------------------------------- claims
\* The record stored for id, in whatever shard.
Stored(id) == \E k \in Shards : id \in DOMAIN records[k]

\* id routes to a shard (a.records[index] does not panic).
Routable(id) == ~IndexPanics(ShardIndex(id))

\* This step applied Remove(id, f) to a shard: a sync Ack, or a worker
\* handling an ack-queue item.
AckApplied(id, f) ==
    \/ /\ last'.op = "Ack" /\ ~async
       /\ last'.id = id /\ last'.flag = f
    \/ /\ last'.op = "WorkerAck"
       /\ \E n \in WorkerIds :
             /\ workers[n].pc = "ack" /\ workers'[n].pc = "done"
             /\ workers[n].m.ID = id /\ workers[n].m.Flag = f

\* C1: an Ack for an id with no stored record is a silent no-op, predicate
\* configured or not: no fault, and every shard unchanged (stated for the
\* ids that route to a shard).
C1_AckUnknownIsNoOp ==
    [][\A id \in Ids, f \in Flags :
          (AckApplied(id, f) /\ Routable(id) /\ ~Stored(id))
              => (fault' = NoFault /\ records' = records /\ lock' = lock)]_vars

\* The step appended a set item to its queue, or handed it to a worker
\* blocked in its select.
SetAccepted ==
    \E id \in AsyncIds, f \in AsyncFlags, v \in AsyncValues :
       LET m == msg(id, now, f, v) IN
       \/ setCh' = Append(setCh, m) /\ workers' = workers
       \/ /\ setCh' = setCh
          /\ \E n \in Parked : workers' = Receive(n, "set", m)

\* The same for an ack item.
AckAccepted ==
    \E id \in AsyncIds, f \in AsyncFlags :
       LET m == msg(id, 0, f, "") IN
       \/ ackCh' = Append(ackCh, m) /\ workers' = workers
       \/ /\ ackCh' = ackCh
          /\ \E n \in Parked : workers' = Receive(n, "ack", m)

\* An async Set: full queue and nobody receiving -> error and no change;
\* otherwise nil and the item is accepted.
C2_SetStep ==
    (last'.op = "Set" /\ async) =>
        /\ records' = records /\ ackCh' = ackCh /\ fault' = NoFault
        /\ IF Len(setCh) >= cfg.SetBufferSize /\ Parked = {}
           THEN last'.err = ErrMsgRecordFailed /\ setCh' = setCh /\ workers' = workers
           ELSE last'.err = ErrNil /\ SetAccepted

\* An async Ack, likewise.
C2_AckStep ==
    (last'.op = "Ack" /\ async) =>
        /\ records' = records /\ setCh' = setCh /\ fault' = NoFault
        /\ IF Len(ackCh) >= cfg.AckBufferSize /\ Parked = {}
           THEN last'.err = ErrMsgAckFailed /\ ackCh' = ackCh /\ workers' = workers
           ELSE last'.err = ErrNil /\ AckAccepted

\* C2: in async mode Set and Ack never block.  With the queue full and no
\* worker blocked in its select the call returns the buffer-full error and
\* changes neither queue, worker nor shard; otherwise it returns nil and the
\* item is appended to the queue or handed to a blocked worker.  No queue
\* ever holds more items than its buffer size.
C2_NonBlockingBackpressure ==
    /\ [](Len(setCh) <= cfg.SetBufferSize /\ Len(ackCh) <= cfg.AckBufferSize)
    /\ [][C2_SetStep /\ C2_AckStep]_vars

\* C2's case: a 1-slot set-queue, never drained (no Start yet); the first
\* Set is buffered and the second has just returned the buffer-full error.
C2_Witness ==
    /\ async /\ cfg.SetBufferSize = 1 /\ stopCh = 0 /\ startPend = 0
    /\ Len(setCh) = 1
    /\ last.op = "Set" /\ last.err = ErrMsgRecordFailed

\* The items waiting in the two queues.
Buffered == Len(setCh) + Len(ackCh)

\* The largest buffer size configured.
MaxBufferSize == CHOOSE b \in BufferSizes : \A c \in BufferSizes : c <= b

\* Started, and Stop has not been called since construction.
RunningNoStop == status = 1 /\ stopPend = 0 /\ closed = {}

\* C3: while the manager stays running, every item buffered in a queue is
\* eventually taken out of it and applied: queues holding k items
\* eventually hold fewer, unless Stop is called or the process faults.
C3_EnqueuedEventuallyApplied ==
    \A k \in 1..(MaxBufferSize + MaxBufferSize) :
       (Alive /\ RunningNoStop /\ Buffered = k)
           ~> (~Alive \/ ~RunningNoStop \/ Buffered < k)

\* C4: Start and Stop, called in a row or concurrently, never panic on the
\* stop signal (no close of a nil or of a closed channel).
C4_StartStopNeverPanic == fault \notin {CloseNilPanic, CloseClosedPanic}

\* C5: ReAllocate completes normally and leaves every shard's mapping
\* id -> (flag, value, timestamp) as it was.
C5_CompactPreserves ==
    [][last'.op = "ReAllocate" => (fault' = NoFault /\ records' = records)]_vars

\* An Ack applied to a stored record removes it, and only it, exactly when
\* the predicate is absent or accepts (record.flag, ackFlag).
C6_AckStep ==
    \A id \in Ids, f \in Flags :
       (AckApplied(id, f) /\ Routable(id) /\ Stored(id)) =>
          LET k == ShardIndex(id)
              rec == records[k][id]
          IN  /\ fault' = NoFault
              /\ IF canAck = "nil" \/ CanAckCall(rec.Flag, f)
                 THEN /\ DOMAIN records'[k] = (DOMAIN records[k]) \ {id}
                      /\ \A i \in DOMAIN records'[k] : records'[k][i] = records[k][i]
                      /\ \A j \in Shards \ {k} : records'[j] = records[j]
                 ELSE records' = records

\* A Set leaves its flag in the record.
C6_SetStep ==
    (last'.op = "Set" /\ ~async /\ fault' = NoFault) =>
        records'[ShardIndex(last'.id)][last'.id].Flag = last'.flag

\* C6: for a stored record, Ack(id, ackFlag) removes it if and only if no
\* predicate is configured or predicate(record.flag, ackFlag) is true, and
\* touches no other record; otherwise every record stays as it was.  The
\* record's flag is the flag of the latest Set for the id.
C6_AckRemovesIffCompatible == [][C6_AckStep /\ C6_SetStep]_vars

\* C6's case: with the predicate setFlag <= ackFlag, an Ack with a flag
\* below the stored one has just left the record in place.
C6_Witness ==
    /\ last.op = "Ack" /\ canAck = "le" /\ fault = NoFault
    /\ Stored(last.id)
    /\ records[ShardIndex(last.id)][last.id].Flag > last.flag
    /\ records[ShardIndex(last.id)][last.id].Timestamp < now

\* The records, over all shards, of age d or more.
DueRecords(d) ==
    UNION {{records[k][i] : i \in {j \in DOMAIN records[k] : now - records[k][j].Timestamp >= d}} : k \in Shards}

\* C7: for d > 0, Get(d) returns exactly the records, over all shards,
\* with now - timestamp >= d, each once; and every record of shard k has
\* an id that routes to k.
C7_ExpiredExact ==
    /\ \A k \in Shards : \A i \in DOMAIN records[k] :
          ShardIndex(i) = k /\ records[k][i].ID = i
    /\ (last.op = "Get" /\ last.dur > 0) =>
          /\ {last.out[j] : j \in 1..Len(last.out)} = DueRecords(last.dur)
          /\ \A a, b \in 1..Len(last.out) : last.out[a].ID = last.out[b].ID => a = b

\* C7's case: Get(d) with d > 0 has just returned two records while a
\* younger one stays out of the result.
C7_Witness ==
    /\ last.op = "Get" /\ last.dur > 0 /\ Len(last.out) = 2
    /\ \E k \in Shards : \E i \in DOMAIN records[k] :
          now - records[k][i].Timestamp < last.dur

\* C8: Get changes nothing: shards, locks, queues and status stay as they
\* were; and for d <= 0 it returns the empty slice and takes no shard lock.
C8_ExpiredNonDestructive ==
    [][last'.op = "Get" =>
          /\ records' = records /\ lock' = lock /\ fault' = fault
          /\ setCh' = setCh /\ ackCh' = ackCh /\ status' = status
          /\ (last'.dur <= 0 => (last'.out = <<>> /\ last'.acq = {}))]_vars

\* C8's case: Get(d) with d <= 0 has just returned nothing although a
\* record is stored that is old enough for every d.
C8_Witness ==
    /\ last.op = "Get" /\ last.dur <= 0 /\ last.out = <<>>
    /\ \E k \in Shards : \E i \in DOMAIN records[k] : records[k][i].Timestamp < now

\* C9: for every id, negative ones included, Set and Ack lock exactly the
\* shard id mod capacity, an index in 0..capacity-1, and do not fault on the
\* index.
C9_RoutesByMod ==
    [][(last'.op \in {"Set", "Ack"} /\ ~async) =>
          (fault' # IndexPanic /\ last'.acq = {last'.id % capacity})]_vars

\* C10 as claimed: an item buffered in a queue when the stop signal is
\* closed is never applied to a shard afterwards.
C10_BufferedAtStopNeverApplied ==
    ~(last.op \in {"WorkerSet", "WorkerAck"} /\ last.old)

\* C10 as amended: Stop neither drains nor discards.  Both steps of Stop
\* leave the queues and the shards as they are, and an item leaves a queue
\* only when a worker receives it in its select.
C10_StopKeepsQueues ==
    [][/\ last'.op \in {"Stop", "StopClose"} =>
             (setCh' = setCh /\ ackCh' = ackCh /\ records' = records)
       /\ (Len(setCh') < Len(setCh) \/ Len(ackCh') < Len(ackCh)) =>
             last'.op = "WorkerSelect"]_vars

\* C10's case: the stop signal has just been closed with an item buffered.
C10_Witness ==
    /\ last.op = "StopClose" /\ fault = NoFault
    /\ status = 0 /\ stopPend = 0
    /\ Len(setCh) > 0

\* C11: in sync mode Set and Ack always succeed and have acted when they
\* return: the call returns nil without a fault, after Set(id, f, v) the
\* record of id is there with flag f and value v, and queues and status are
\* as before.
C11_SyncAppliedOnReturn ==
    [][(last'.op \in {"Set", "Ack"} /\ ~async) =>
          /\ fault' = NoFault /\ last'.err = ErrNil
          /\ setCh' = setCh /\ ackCh' = ackCh /\ status' = status
          /\ last'.op = "Set" =>
                \E k \in Shards :
                      /\ last'.id \in DOMAIN records'[k]
                      /\ records'[k][last'.id].Flag = last'.flag
                      /\ records'[k][last'.id].Value = last'.val]_vars

\* The goroutines of Start that can still receive from the queues.
Takers == {n \in WorkerIds : workers[n].pc \in {"ready", "parked"}}

\* The goroutines of Start that have not returned.
LiveWorkers == {n \in WorkerIds : workers[n].pc \in {"ready", "parked", "set", "ack"}}

\* C14: at most one worker can take items from the queues, and while the
\* status is Running with no Start or Stop call in progress exactly one
\* worker is alive.
C14_SingleWorker ==
    /\ Cardinality(Takers) <= 1
    /\ (status = 1 /\ startPend = 0 /\ stopPend = 0) => Cardinality(LiveWorkers) = 1

\* C16: an id has at most one record in the whole manager, in the shard it
\* routes to; a Set replaces the record of its id by one with its flag, its
\* value and the current time, and leaves every other record alone.
C16_OneRecordPerId ==
    /\ [](\A id \in Ids :
            /\ Cardinality({k \in Shards : id \in DOMAIN records[k]}) <= 1
            /\ Stored(id) => id \in DOMAIN records[ShardIndex(id)])
    /\ [][(last'.op = "Set" /\ ~async /\ fault' = NoFault) =>
            LET id == last'.id
                k == ShardIndex(id)
            IN  /\ DOMAIN records'[k] = (DOMAIN records[k]) \cup {id}
                /\ records'[k][id] = msg(id, now, last'.flag, last'.val)
                /\ \A i \in (DOMAIN records[k]) \ {id} : records'[k][i] = records[k][i]
                /\ \A j \in Shards \ {k} : records'[j] = records[j]]_vars

\* C16's case: a Set at a later time has just stored its record next to an
\* older record of another id in the same shard.
C16_Witness ==
    /\ last.op = "Set" /\ fault = NoFault /\ now > 0
    /\ Stored(last.id)
    /\ LET k == ShardIndex(last.id) IN
       /\ records[k][last.id] = msg(last.id, now, last.flag, last.val)
       /\ \E i \in (DOMAIN records[k]) \ {last.id} : records[k][i].Timestamp < now

\* C19: every shard operation releases the lock in the mode it took it: no
\* fault from a mismatched unlock, and after Set, Ack, Get or ReAllocate has
\* returned every shard's lock is free.
C19_LockReleasedAsAcquired ==
    /\ fault # RUnlockFatal
    /\ (last.op \in {"Set", "Ack", "Get", "ReAllocate"} /\ fault = NoFault) =>
          \A k \in Shards : lock[k] = FreeLock

\* C13: NewAckManager with Capacity <= 0 returns the capacity error and no
\* manager; with Capacity > 0 it returns a manager with exactly Capacity
\* empty, unlocked shards, status 0, a nil stop channel, no goroutine and
\* empty queues.
C13_Construction ==
    last.op = "NewAckManager" =>
       IF cfg.Capacity <= 0
       THEN last.err = ErrCapacity /\ ~Built
       ELSE /\ last.err = ErrNil /\ Built /\ fault = NoFault
            /\ DOMAIN records = 0..(cfg.Capacity - 1)
            /\ Cardinality(DOMAIN records) = cfg.Capacity
            /\ \A k \in DOMAIN records : records[k] = EmptyMap /\ lock[k] = FreeLock
            /\ status = 0 /\ stopCh = 0
            /\ \A n \in WorkerIds : workers[n].pc = "none"
            /\ setCh = <<>> /\ ackCh = <<>>

\* C13's case: construction from a Config with Capacity <= 0 has just
\* failed.
C13_Witness ==
    /\ last.op = "NewAckManager" /\ cfg.Capacity <= 0
    /\ last.err = ErrCapacity /\ ~Built

\* A sequential Start on an async manager: Stopped -> Running with the rest
\* of the call to come, and nothing at all when Running.
C17_StartStep ==
    (last'.op = "Start" /\ async) =>
        /\ fault' = NoFault
        /\ IF status = 0
           THEN status' = 1 /\ startPend' = 1
           ELSE /\ status' = 1 /\ startPend' = 0
                /\ stopCh' = stopCh /\ closed' = closed /\ workers' = workers

\* A sequential Stop on an async manager: Running -> Stopped with the close
\* to come, and nothing at all when Stopped.
C17_StopStep ==
    (last'.op = "Stop" /\ async) =>
        /\ fault' = NoFault
        /\ IF status = 1
           THEN status' = 0 /\ stopPend' = 1
           ELSE /\ status' = 0 /\ stopPend' = 0
                /\ stopCh' = stopCh /\ closed' = closed /\ workers' = workers

\* The rest of a sequential Start makes a new, open stop channel and one
\* goroutine; the rest of a sequential Stop closes the open stop channel
\* without a panic.
C17_Completion ==
    /\ last'.op = "StartGo" =>
          /\ stopCh' \notin closed' /\ stopCh' # stopCh /\ fault' = NoFault
          /\ workers[stopCh'].pc = "none" /\ workers'[stopCh'].pc = "ready"
    /\ last'.op = "StopClose" =>
          /\ fault' = NoFault /\ stopCh \notin closed /\ closed' = closed \cup {stopCh}

\* Start and Stop on a sync manager change nothing.
C17_SyncStep ==
    (last'.op \in {"Start", "Stop"} /\ ~async) =>
        /\ status' = status /\ stopCh' = stopCh /\ closed' = closed
        /\ workers' = workers /\ startPend' = 0 /\ stopPend' = 0
        /\ records' = records /\ setCh' = setCh /\ ackCh' = ackCh
        /\ fault' = NoFault

\* C17: the status is always 0 (Stopped) or 1 (Running), 0 after
\* construction; called one after the other on an async manager, Start moves
\* Stopped -> Running and is a no-op when Running, Stop moves Running ->
\* Stopped and is a no-op when Stopped, a Stop before any Start included, and
\* neither panics; on a sync manager both change nothing and spawn nothing.
C17_SequentialLifecycle ==
    /\ [](status \in {0, 1} /\ (last.op = "NewAckManager" => status = 0))
    /\ [][C17_StartStep /\ C17_StopStep /\ C17_Completion /\ C17_SyncStep]_vars

\* C17's case: after one full Start/Stop cycle a second Stop has just
\* returned without doing anything.
C17_Witness ==
    /\ async /\ last.op = "Stop" /\ fault = NoFault
    /\ status = 0 /\ NoCallInProgress
    /\ stopCh = 1 /\ closed = {1}

\* Goroutine n applies the set item it holds in this step.
AppliesSet(n) == workers[n].pc = "set" /\ workers'[n].pc = "done"

\* C15: set-queue items are applied in the order they were enqueued: no
\* item is applied while an item enqueued before it (at an earlier time) has
\* been received from the queue and is still to be applied.
C15_QueueOrder ==
    [][\A n \in WorkerIds :
          AppliesSet(n) =>
             \A o \in WorkerIds \ {n} :
                ~(workers[o].pc = "set"
                  /\ workers[o].m.Timestamp < workers[n].m.Timestamp)]_vars

\* C20: the record a worker stores for a set item carries the timestamp the
\* item got when Set was called.
C20_EnqueueTimestampKept ==
    [][\A n \in WorkerIds :
          (AppliesSet(n) /\ fault' = NoFault) =>
             LET m == workers[n].m IN
             records'[ShardIndex(m.ID)][m.ID].Timestamp = m.Timestamp]_vars

\* What is stored for id, as a set of (flag, value): empty when absent.
RecordOf(id) ==
    {[Flag |-> records[k][id].Flag, Value |-> records[k][id].Value] :
        k \in {j \in Shards : id \in DOMAIN records[j]}}

\* C12: concurrent sync Set and Ack on disjoint ids lose no update: whenever
\* a thread is between two calls, what is stored for its id is what its own
\* calls, applied one after the other, leave; nothing is stored for other
\* ids; and no map access races.
C12_NoLostUpdate ==
    /\ fault # ConcurrentMapFatal
    /\ fault = NoFault =>
          /\ \A t \in Threads :
                threads[t].pc = "idle" => RecordOf(OwnId(t)) = threads[t].exp
          /\ \A k \in Shards : DOMAIN records[k] \subseteq {OwnId(t) : t \in Threads}

\* C12's case: on one shard, a thread has completed a Set and an Ack that
\* removed its record, while the other thread, whose record is stored, holds
\* the shard's lock inside another Set.
C12_Witness ==
    /\ capacity = 1 /\ fault = NoFault
    /\ threads[1].pc = "idle" /\ threads[1].exp = {} /\ threads[1].flag # 0
    /\ threads[2].pc = "set.locked" /\ RecordOf(OwnId(2)) # {}
    /\ RecordOf(OwnId(2)) # threads[2].exp

\* C18: every access to a shard's map is made by a goroutine that holds the
\* shard's lock, and while no other goroutine holds that lock as a writer.
C18_LockDiscipline ==
    [][\A t \in Threads :
          (threads[t].pc \in CriticalPcs \cup {"re.size"} /\ threads'[t] # threads[t]) =>
             /\ Holds(t, threads[t].k)
             /\ \A u \in Threads \ {t} :
                   ~(Holds(u, threads[t].k) /\ threads[u].pc \in WriterPcs)]_vars

====
